---- MODULE Spec2Model ----
(***************************************************************************)
(* The WineFonts manifest compiler (the build script) as a state machine.  *)
(* One run of main(): the output directory is set up, fonts.json is read,  *)
(* every installation of every font is resolved through the download list, *)
(* the fonts and downloads are sorted and the manifest is written.         *)
(***************************************************************************)
EXTENDS Integers, Sequences, FiniteSets, TLC

(* ------------------------------ bounds -------------------------------- *)

\* Largest number of installations in the whole catalog.
MaxInstalls == 3

\* Largest number of installations of a font the format script sorts.
MaxSources == 3

(* --------------------------- JavaScript values ------------------------ *)

\* An optional property: <<>> is JavaScript's undefined, <<v>> the value v.
Undefined == <<>>

Some(v) == <<v>>

IsDefined(o) == o # Undefined

Val(o) == o[1]

\* The strings the model compares with < and >, in ascending order of their
\* UTF-16 code units (upper case before lower case).
StringsInOrder ==
    << "<UUID>", "Arial", "Core", "Courier New", "Verdana", "Web", "a.ttf",
       "b.ttf", "cabextract", "id-verdana", "monospace", "sans-serif", "serif",
       "zip" >>

Rank(s) == CHOOSE i \in 1..Len(StringsInOrder) : StringsInOrder[i] = s

\* a < b on two strings.
StrLess(a, b) == Rank(a) < Rank(b)

\* a.download < b.download: a download id is a UUID string of fixed length and
\* layout, ordered as the number it writes; a comparison with undefined is false.
IdLess(a, b) == IsDefined(a) /\ IsDefined(b) /\ Val(a) < Val(b)

(* ------------------------- Array.prototype.sort ----------------------- *)

\* The array sort of the JavaScript engine (V8) for an array shorter than 64
\* elements: the leading run is found (and reversed if strictly descending),
\* then every later element is put in place by binary insertion. C[i][j] is
\* the comparator's result on elements i and j of the array; the result is the
\* order of the indices.
RECURSIVE RunEnd(_, _, _, _)
RunEnd(k, desc, C, n) ==
    IF k < n /\ (IF desc THEN C[k + 1][k] < 0 ELSE C[k + 1][k] >= 0)
    THEN RunEnd(k + 1, desc, C, n)
    ELSE k

RECURSIVE BinarySearch(_, _, _, _, _)
BinarySearch(perm, pivot, left, right, C) ==
    IF left < right
    THEN LET mid == left + ((right - left) \div 2)
         IN  IF C[pivot][perm[mid]] < 0
             THEN BinarySearch(perm, pivot, left, mid, C)
             ELSE BinarySearch(perm, pivot, mid + 1, right, C)
    ELSE left

RECURSIVE BinaryInsertionSort(_, _, _, _)
BinaryInsertionSort(perm, start, n, C) ==
    IF start > n THEN perm
    ELSE LET pivot == perm[start]
             left  == BinarySearch(perm, pivot, 1, start, C)
             moved == [k \in 1..n |->
                          IF k < left THEN perm[k]
                          ELSE IF k = left THEN pivot
                          ELSE IF k <= start THEN perm[k - 1]
                          ELSE perm[k]]
         IN  BinaryInsertionSort(moved, start + 1, n, C)

SortOrder(n, C) ==
    IF n < 2 THEN [k \in 1..n |-> k]
    ELSE LET desc == C[2][1] < 0
             r    == RunEnd(2, desc, C, n)
             run  == [k \in 1..n |-> IF k > r THEN k ELSE IF desc THEN r + 1 - k ELSE k]
         IN  BinaryInsertionSort(run, r + 1, n, C)

Permuted(a, perm) == [k \in 1..Len(a) |-> a[perm[k]]]

\* a.sort() with no comparator, on strings: by their code units.
defaultCompare(a, b) == IF StrLess(a, b) THEN -1 ELSE IF StrLess(b, a) THEN 1 ELSE 0

sortStrings(a) ==
    Permuted(a, SortOrder(Len(a),
        [i \in 1..Len(a) |-> [j \in 1..Len(a) |-> defaultCompare(a[i], a[j])]]))

\* sortByDownloadID: by type, then by download id.
sortByDownloadID(a, b) ==
    IF StrLess(a.type, b.type) THEN -1
    ELSE IF StrLess(b.type, a.type) THEN 1
    ELSE IF IdLess(a.download, b.download) THEN -1
    ELSE IF IdLess(b.download, a.download) THEN 1
    ELSE 0

sortInstallations(a) ==
    Permuted(a, SortOrder(Len(a),
        [i \in 1..Len(a) |-> [j \in 1..Len(a) |-> sortByDownloadID(a[i], a[j])]]))

sortByName(a, b) ==
    IF StrLess(a.name, b.name) THEN -1
    ELSE IF StrLess(b.name, a.name) THEN 1
    ELSE 0

sortFontsByName(a) ==
    Permuted(a, SortOrder(Len(a),
        [i \in 1..Len(a) |-> [j \in 1..Len(a) |-> sortByName(a[i], a[j])]]))

\* The comparator of the downloads' sort: by id.
compareById(a, b) == IF a.id < b.id THEN -1 ELSE IF a.id > b.id THEN 1 ELSE 0

sortDownloadsById(a) ==
    Permuted(a, SortOrder(Len(a),
        [i \in 1..Len(a) |-> [j \in 1..Len(a) |-> compareById(a[i], a[j])]]))

(* ------------------------------- paths -------------------------------- *)

\* A path is its sequence of segments; a segment is a base name and an
\* extension ("a.tar+gz" is base "a", ext ".tar+gz").
Seg(b, e) == [base |-> b, ext |-> e]

Dot == Seg(".", "")

DotDot == Seg("..", "")

RECURSIVE NormalizeSegs(_, _)
NormalizeSegs(segs, acc) ==
    IF segs = <<>> THEN acc
    ELSE LET s == Head(segs)
             r == Tail(segs)
         IN  IF s = Dot THEN NormalizeSegs(r, acc)
             ELSE IF s = DotDot /\ acc # <<>> /\ acc[Len(acc)] # DotDot
                  THEN NormalizeSegs(r, SubSeq(acc, 1, Len(acc) - 1))
                  ELSE NormalizeSegs(r, Append(acc, s))

\* path.normalize: "." segments are dropped, "x/.." pairs are resolved, and the
\* empty result is ".".
normalize(p) ==
    LET n == NormalizeSegs(p, <<>>)
    IN  IF n = <<>> THEN <<Dot>> ELSE n

\* path.extname: the extension of the last segment.
extname(p) == p[Len(p)].ext

(* -------------------------------- URLs -------------------------------- *)

toLowerCase(s) ==
    CASE s = "HTTP" -> "http"
      [] s = "Example.com" -> "example.com"
      [] OTHER -> s

\* A URL path is its segments; a trailing "" segment is a trailing slash.
removeTrailingSlash(path) ==
    IF path # <<>> /\ path[Len(path)] = ""
    THEN SubSeq(path, 1, Len(path) - 1)
    ELSE path

\* normalize-url: scheme and host in lower case, no trailing slash.
normalizeUrl(u) ==
    [scheme |-> toLowerCase(u.scheme),
     host   |-> toLowerCase(u.host),
     path   |-> removeTrailingSlash(u.path)]

(* ------------------------- the world of one run ----------------------- *)

\* The files below the repository root, by normalized path: their bytes.
FileA == <<Seg("a", ".tar+gz")>>

SourceBytes(p) == IF p = FileA THEN Some(<<1, 2, 3>>) ELSE Undefined

\* What a server sends for a URL: the asset with a success status, an error
\* page otherwise.
ResponseBody(u, ok) == IF ok THEN <<7, 8, Len(u.path)>> ELSE <<4, 0, 4>>

\* SHA-256 as a collision-free digest of the bytes.
sha256(bytes) == [alg |-> "sha256", of |-> bytes]

\* The ids randomUUID returns in one run: never the same one twice, in any
\* order; no run of these catalogs asks for more than three.
UUIDs == {1, 2, 3}

(* ----------------------------- the catalog ---------------------------- *)

Installation(t, f, lp, u, d) ==
    [type |-> t, files |-> f, _localPath |-> lp, _url |-> u, download |-> d]

UrlUpper == [scheme |-> "HTTP", host |-> "Example.com", path |-> <<"f", "">>]

UrlLower == [scheme |-> "http", host |-> "example.com", path |-> <<"f">>]

CabFiles == Some(<<"b.ttf", "a.ttf">>)

\* The installations a catalog is made of: a local and a remote reference, each
\* in two spellings and under two types, and an installation with no reference.
InstallationPool ==
    { Installation("cabextract", CabFiles, Some(<<Dot, Seg("a", ".tar+gz")>>), Undefined, Undefined),
      Installation("zip", Undefined, Some(<<Seg("d", ""), DotDot, Seg("a", ".tar+gz")>>), Undefined, Undefined),
      Installation("cabextract", CabFiles, Undefined, Some(UrlUpper), Undefined),
      Installation("zip", Undefined, Undefined, Some(UrlLower), Undefined),
      Installation("cabextract", CabFiles, Undefined, Undefined, Undefined) }

FontHeads ==
    { [id |-> "id-verdana", name |-> "Verdana", shortName |-> "verdana",
       publisher |-> "Microsoft", categories |-> <<"sans-serif", "monospace">>],
      [id |-> "id-arial", name |-> "Arial", shortName |-> "arial",
       publisher |-> "Microsoft", categories |-> <<"serif", "sans-serif">>] }

Font(h, ins) ==
    [id |-> h.id, name |-> h.name, shortName |-> h.shortName,
     publisher |-> h.publisher, categories |-> h.categories,
     installations |-> ins]

InstallationLists(n) == UNION { [1..k -> InstallationPool] : k \in 0..n }

\* The catalogs of fonts with distinct ids taken from heads and at most budget
\* installations in all.
RECURSIVE CatalogsOf(_, _)
CatalogsOf(budget, heads) ==
    {<<>>} \cup
    UNION { UNION { { <<Font(h, ins)>> \o rest :
                      rest \in CatalogsOf(budget - Len(ins), heads \ {h}) } :
                    ins \in InstallationLists(budget) } :
            h \in heads }

Catalogs == CatalogsOf(MaxInstalls, FontHeads) \ {<<>>}

(* ------------------------------- state -------------------------------- *)

VARIABLES
    pc,          \* where main() is
    catalog,     \* fonts.json as read: the fonts of the source catalog
    fonts,       \* fonts.fonts, mutated in place
    fi,          \* the font the traversal is at
    ii,          \* the installation of that font the traversal is at
    downloads,   \* the downloads array
    generated,   \* the ids generateUUID has returned, in order
    outDir,      \* the output directory ../dist
    distBefore,  \* the output directory as the run found it
    tempFolders, \* the temporary folders that exist
    fetching,    \* the remote download in progress, if any
    fetchLog,    \* the requests made, with how each ended
    manifest,    \* the assembled manifest object, if any
    firstRun,    \* in a second compile: what the first one drew and wrote
    env,         \* process.env: the VERSION and URL_PREFIX variables
    fpc,         \* where the format script's main() is
    formatFonts, \* the format script's fonts object, mutated in place
    fk,          \* the font the format loop is at
    uuids,       \* the format script's uuids array
    repo,        \* the files fonts.json and newUUIDs.json of the repository
    writes,      \* the files the format script has written, in order
    source,      \* the catalog as the format script read it
    firstFormat  \* in a second format pass: what the first one read and wrote

formatVars == << fpc, formatFonts, fk, uuids, repo, writes, source, firstFormat >>

compileVars ==
    << pc, catalog, fonts, fi, ii, downloads, generated, outDir, distBefore,
       tempFolders, fetching, fetchLog, manifest, firstRun, env >>

vars == << compileVars, formatVars >>

\* The environments a compile is run in: neither variable set, or both set by
\* whoever runs the build.
Environments ==
    { [VERSION |-> Undefined, URL_PREFIX |-> Undefined],
      [VERSION |-> Some("1.2.0"), URL_PREFIX |-> Some("https://cdn.test/")] }

\* The output directory before the run: missing, or left by an earlier build.
NoDir == [exists |-> FALSE, stale |-> {}, assets |-> {}, manifest |-> Undefined]

EmptyDir == [exists |-> TRUE, stale |-> {}, assets |-> {}, manifest |-> Undefined]

OldDir == [exists |-> TRUE, stale |-> {"fonts.json", "old.exe"}, assets |-> {}, manifest |-> Undefined]

\* The format script is not run.
FormatOff ==
    /\ fpc = "off"
    /\ formatFonts = [fonts |-> <<>>, groups |-> <<>>]
    /\ fk = 1
    /\ uuids = <<>>
    /\ repo = [fonts |-> Undefined, newUUIDs |-> Undefined]
    /\ writes = <<>>
    /\ source = <<>>
    /\ firstFormat = Undefined

Init ==
    /\ FormatOff
    /\ pc = "start"
    /\ catalog \in Catalogs
    /\ fonts = catalog
    /\ fi = 1
    /\ ii = 1
    /\ downloads = <<>>
    /\ generated = <<>>
    /\ outDir \in {NoDir, OldDir}
    /\ distBefore = outDir
    /\ tempFolders = {}
    /\ fetching = Undefined
    /\ fetchLog = <<>>
    /\ manifest = Undefined
    /\ firstRun = Undefined
    /\ env \in Environments

\* a || b on an optional string: undefined and the empty string are falsy.
OrElse(a, b) == IF IsDefined(a) /\ Val(a) # "" THEN Val(a) ELSE b

\* A version taken from the output of the build before, when there is one.
version_OfPrevious ==
    IF distBefore.assets # {} THEN "0.0.1" ELSE "0.0.0"

version == OrElse(env.VERSION, "0.0.0")

urlPrefix == OrElse(env.URL_PREFIX, "https://example.com/")

\* generateUUID: the ids randomUUID may return now. It never returns an id
\* twice; a second compile is given the ids of the first, in the same order.
generateUUID ==
    IF IsDefined(firstRun)
    THEN { Val(firstRun).generated[k] : k \in {Len(generated) + 1} \cap 1..Len(Val(firstRun).generated) }
    ELSE UUIDs \ { generated[k] : k \in 1..Len(generated) }

\* Whether the response that arrives now has a success status. A second
\* compile is sent what the first one was sent.
Responses ==
    IF IsDefined(firstRun)
    THEN { Val(firstRun).fetchLog[k].result = "success" :
             k \in {Len(fetchLog)} \cap 1..Len(Val(firstRun).fetchLog) }
    ELSE BOOLEAN

\* The installation the traversal is at.
Current == fonts[fi].installations[ii]

InTraversal == pc = "resolve" /\ fi <= Len(fonts) /\ ii <= Len(fonts[fi].installations)

\* The index of the first download the scan of the downloads array stops at.
FirstIndex(S) == CHOOSE i \in S : \A j \in S : i <= j

\* downloadExistsLocalFile with the path compared as written, not normalized.
downloadExistsLocalFile_Raw(localFile) ==
    LET hits == { i \in 1..Len(downloads) :
                    /\ downloads[i]._type = "localFile"
                    /\ downloads[i]._localFile = Some(localFile) }
    IN  IF hits = {} THEN Undefined ELSE Some(downloads[FirstIndex(hits)].id)

\* downloadExistsLocalFile: the id of the first local download of that
\* normalized path, or null.
downloadExistsLocalFile(localFile) ==
    LET hits == { i \in 1..Len(downloads) :
                    /\ downloads[i]._type = "localFile"
                    /\ downloads[i]._localFile = Some(normalize(localFile)) }
    IN  IF hits = {} THEN Undefined ELSE Some(downloads[FirstIndex(hits)].id)

\* downloadExistsURL with the URL compared as written, not normalized.
downloadExistsURL_Raw(url) ==
    LET hits == { i \in 1..Len(downloads) :
                    /\ downloads[i]._type = "url"
                    /\ downloads[i]._url = Some(url) }
    IN  IF hits = {} THEN Undefined ELSE Some(downloads[FirstIndex(hits)].id)

\* downloadExistsURL: the id of the first remote download of that normalized
\* URL, or null.
downloadExistsURL(url) ==
    LET hits == { i \in 1..Len(downloads) :
                    /\ downloads[i]._type = "url"
                    /\ downloads[i]._url = Some(normalizeUrl(url)) }
    IN  IF hits = {} THEN Undefined ELSE Some(downloads[FirstIndex(hits)].id)

\* The escape of a string: every character but letters, digits and - _ . ! ~
\* * ' ( ) is written as % and its code.
Escaped(str) ==
    CASE str = ".tar+gz" -> ".tar%2Bgz"
      [] OTHER -> str

\* encodeURIComponent of id + extension: the characters of a UUID are kept,
\* those of the extension are escaped.
encodeURIComponent(name) == [id |-> name.id, ext |-> Escaped(name.ext)]

\* LocalDownload with the digest taken before the file's bytes are fed to it.
LocalDownload_EmptyDigest(id, localFile) ==
    [id          |-> id,
     downloadURL |-> [prefix |-> Some(urlPrefix),
                      name   |-> Some(encodeURIComponent([id |-> id, ext |-> extname(localFile)])),
                      url    |-> Undefined],
     fileSize    |-> Len(Val(SourceBytes(normalize(localFile)))),
     hash        |-> sha256(<<>>),
     _type       |-> "localFile",
     _localFile  |-> Some(normalize(localFile)),
     _url        |-> Undefined]

\* The record addLocalFileDownload pushes: size and hash are read from the
\* source file.
LocalDownload(id, localFile) ==
    [id          |-> id,
     downloadURL |-> [prefix |-> Some(urlPrefix),
                      name   |-> Some(encodeURIComponent([id |-> id, ext |-> extname(localFile)])),
                      url    |-> Undefined],
     fileSize    |-> Len(Val(SourceBytes(normalize(localFile)))),
     hash        |-> sha256(Val(SourceBytes(normalize(localFile)))),
     _type       |-> "localFile",
     _localFile  |-> Some(normalize(localFile)),
     _url        |-> Undefined]

\* URLDownload with the normalized URL as the downloadURL.
URLDownload_Normalized(id, url, file) ==
    [id          |-> id,
     downloadURL |-> [prefix |-> Undefined, name |-> Undefined, url |-> Some(normalizeUrl(url))],
     fileSize    |-> Len(file),
     hash        |-> sha256(file),
     _type       |-> "url",
     _localFile  |-> Undefined,
     _url        |-> Some(normalizeUrl(url))]

\* The record addURLDownload pushes: size and hash are read from the file the
\* response body was written to.
URLDownload(id, url, file) ==
    [id          |-> id,
     downloadURL |-> [prefix |-> Undefined, name |-> Undefined, url |-> Some(url)],
     fileSize    |-> Len(file),
     hash        |-> sha256(file),
     _type       |-> "url",
     _localFile  |-> Undefined,
     _url        |-> Some(normalizeUrl(url))]

\* StagedAsset with the copy cut short: an empty file under the right name.
StagedAsset_Truncated(id, localFile) ==
    [id |-> id, ext |-> extname(localFile), data |-> <<>>]

\* The file copyFileSync writes into the output directory.
StagedAsset(id, localFile) ==
    [id |-> id, ext |-> extname(localFile), data |-> Val(SourceBytes(normalize(localFile)))]

\* Compiled with the remote reference left in place.
Compiled_KeepsUrl(obj, download) ==
    [type       |-> obj.type,
     files      |-> IF obj.type = "cabextract" THEN Some(sortStrings(Val(obj.files))) ELSE obj.files,
     _localPath |-> Undefined,
     _url       |-> obj._url,
     download   |-> download]

\* addFromObject's last lines and the loop body's switch: the download id is
\* set, the raw references are deleted, a cabextract's files are sorted.
Compiled(obj, download) ==
    [type       |-> obj.type,
     files      |-> IF obj.type = "cabextract" THEN Some(sortStrings(Val(obj.files))) ELSE obj.files,
     _localPath |-> Undefined,
     _url       |-> Undefined,
     download   |-> download]

\* The traversal moves to the next installation, the current one replaced.
Advance(obj) ==
    /\ fonts' = [fonts EXCEPT ![fi].installations[ii] = obj]
    /\ ii' = ii + 1

\* SetupOutDir with an existing directory kept as it is, not cleared.
SetupOutDir_NoClear ==
    /\ pc = "start"
    /\ outDir' = [outDir EXCEPT !.exists = TRUE]
    /\ pc' = "resolve"
    /\ UNCHANGED << formatVars, env, firstRun, distBefore, catalog, fonts, fi, ii, downloads, generated, tempFolders,
                    fetching, fetchLog, manifest >>

\* main, lines 24-39: create or clear the output directory, read fonts.json.
SetupOutDir ==
    /\ pc = "start"
    /\ outDir' = EmptyDir
    /\ pc' = "resolve"
    /\ UNCHANGED << formatVars, env, firstRun, distBefore, catalog, fonts, fi, ii, downloads, generated, tempFolders,
                    fetching, fetchLog, manifest >>

\* PassThrough with the id of the first download applied, as after a lookup
\* that hit.
PassThrough_AppliesLookup ==
    /\ InTraversal
    /\ ~IsDefined(Current._localPath)
    /\ ~IsDefined(Current._url)
    /\ Advance(Compiled(Current, IF downloads = <<>> THEN Current.download
                                  ELSE Some(downloads[1].id)))
    /\ UNCHANGED << formatVars, pc, env, firstRun, distBefore, catalog, fi, downloads, generated, outDir, tempFolders,
                    fetching, fetchLog, manifest >>

\* addFromObject on an installation with neither reference.
PassThrough ==
    /\ InTraversal
    /\ ~IsDefined(Current._localPath)
    /\ ~IsDefined(Current._url)
    /\ Advance(Compiled(Current, Current.download))
    /\ UNCHANGED << formatVars, pc, env, firstRun, distBefore, catalog, fi, downloads, generated, outDir, tempFolders,
                    fetching, fetchLog, manifest >>

\* addFromObject on a local reference that the downloads array already holds.
LocalHit ==
    /\ InTraversal
    /\ IsDefined(Current._localPath)
    /\ IsDefined(downloadExistsLocalFile(Val(Current._localPath)))
    /\ Advance(Compiled(Current, downloadExistsLocalFile(Val(Current._localPath))))
    /\ UNCHANGED << formatVars, pc, env, firstRun, distBefore, catalog, fi, downloads, generated, outDir, tempFolders,
                    fetching, fetchLog, manifest >>

\* addFromObject and addLocalFileDownload on a new local reference: an id is
\* generated, the file is copied into the output directory, the record pushed.
LocalMiss ==
    /\ InTraversal
    /\ IsDefined(Current._localPath)
    /\ ~IsDefined(downloadExistsLocalFile(Val(Current._localPath)))
    /\ IsDefined(SourceBytes(normalize(Val(Current._localPath))))
    /\ \E id \in generateUUID :
         /\ generated' = Append(generated, id)
         /\ outDir' = [outDir EXCEPT !.assets = @ \cup {StagedAsset(id, Val(Current._localPath))}]
         /\ downloads' = Append(downloads, LocalDownload(id, Val(Current._localPath)))
         /\ Advance(Compiled(Current, Some(id)))
    /\ UNCHANGED << formatVars, pc, env, firstRun, distBefore, catalog, fi, tempFolders, fetching, fetchLog, manifest >>

\* addLocalFileDownload when the file is missing or the copy fails otherwise:
\* copyFileSync throws after the id was generated, and main's catch ends the
\* process.
LocalCopyFails ==
    /\ InTraversal
    /\ ~IsDefined(firstRun)
    /\ IsDefined(Current._localPath)
    /\ ~IsDefined(downloadExistsLocalFile(Val(Current._localPath)))
    /\ \E id \in generateUUID :
         generated' = Append(generated, id)
    /\ pc' = "failed"
    /\ UNCHANGED << formatVars, env, firstRun, distBefore, catalog, fonts, fi, ii, downloads, outDir, tempFolders,
                    fetching, fetchLog, manifest >>

\* addFromObject on a remote reference that the downloads array already holds.
URLHit ==
    /\ InTraversal
    /\ ~IsDefined(Current._localPath)
    /\ IsDefined(Current._url)
    /\ IsDefined(downloadExistsURL(Val(Current._url)))
    /\ Advance(Compiled(Current, downloadExistsURL(Val(Current._url))))
    /\ UNCHANGED << formatVars, pc, env, firstRun, distBefore, catalog, fi, downloads, generated, outDir, tempFolders,
                    fetching, fetchLog, manifest >>

\* URLMiss with addFromObject not awaited: the request is sent and the loop
\* goes on to the next installation while the response is outstanding.
URLMiss_NotAwaited ==
    /\ InTraversal
    /\ ~IsDefined(Current._localPath)
    /\ IsDefined(Current._url)
    /\ ~IsDefined(downloadExistsURL(Val(Current._url)))
    /\ ~IsDefined(fetching)
    /\ \E id \in generateUUID :
         /\ generated' = Append(generated, id)
         /\ fetching' = Some([url |-> Val(Current._url), id |-> id,
                              tempFolder |-> Len(fetchLog) + 1,
                              ok |-> FALSE, file |-> <<>>])
         /\ Advance(Compiled(Current, Some(id)))
    /\ tempFolders' = tempFolders \cup {Len(fetchLog) + 1}
    /\ fetchLog' = Append(fetchLog, [url |-> Val(Current._url), result |-> "pending"])
    /\ UNCHANGED << formatVars, pc, env, firstRun, distBefore, catalog, fi, downloads, outDir, manifest >>

\* addURLDownload up to its first await: the temporary folder is made, an id
\* is generated and the request is sent.
URLMiss ==
    /\ InTraversal
    /\ ~IsDefined(Current._localPath)
    /\ IsDefined(Current._url)
    /\ ~IsDefined(downloadExistsURL(Val(Current._url)))
    /\ \E id \in generateUUID :
         /\ generated' = Append(generated, id)
         /\ fetching' = Some([url |-> Val(Current._url), id |-> id,
                              tempFolder |-> Len(fetchLog) + 1,
                              ok |-> FALSE, file |-> <<>>])
    /\ tempFolders' = tempFolders \cup {Len(fetchLog) + 1}
    /\ fetchLog' = Append(fetchLog, [url |-> Val(Current._url), result |-> "pending"])
    /\ pc' = "fetch"
    /\ UNCHANGED << formatVars, env, firstRun, distBefore, catalog, fonts, fi, ii, downloads, outDir, manifest >>

\* fetch rejects (a transport error): the catch logs the URL and rethrows.
FetchRejects ==
    /\ pc = "fetch"
    /\ ~IsDefined(firstRun)
    /\ fetchLog' = [fetchLog EXCEPT ![Len(fetchLog)].result = "rejected"]
    /\ pc' = "failed"
    /\ UNCHANGED << formatVars, env, firstRun, distBefore, catalog, fonts, fi, ii, downloads, generated, outDir,
                    tempFolders, fetching, manifest >>

\* fetch resolves with a response, whatever its status: the write stream is
\* created and the body is piped into it.
FetchResolves ==
    /\ pc = "fetch"
    /\ \E ok \in Responses :
         /\ fetching' = Some([Val(fetching) EXCEPT !.ok = ok])
         /\ fetchLog' = [fetchLog EXCEPT ![Len(fetchLog)].result =
                            IF ok THEN "success" ELSE "httpError"]
    /\ pc' = "stream"
    /\ UNCHANGED << formatVars, env, firstRun, distBefore, catalog, fonts, fi, ii, downloads, generated, outDir,
                    tempFolders, manifest >>

\* The response body emits an error: the promise rejects.
StreamFails ==
    /\ pc = "stream"
    /\ ~IsDefined(firstRun)
    /\ fetchLog' = [fetchLog EXCEPT ![Len(fetchLog)].result = "streamError"]
    /\ pc' = "failed"
    /\ UNCHANGED << formatVars, env, firstRun, distBefore, catalog, fonts, fi, ii, downloads, generated, outDir,
                    tempFolders, fetching, manifest >>

\* StreamFinishes with the id returned by addURLDownload not stored in the
\* installation.
StreamFinishes_DropsId ==
    /\ pc = "stream"
    /\ LET f    == Val(fetching)
           file == ResponseBody(f.url, f.ok)
       IN  /\ downloads' = Append(downloads, URLDownload(f.id, f.url, file))
           /\ tempFolders' = tempFolders \ {f.tempFolder}
           /\ Advance(Compiled(Current, Undefined))
    /\ fetching' = Undefined
    /\ pc' = "resolve"
    /\ UNCHANGED << formatVars, env, firstRun, distBefore, catalog, fi, generated, outDir, fetchLog, manifest >>

\* The file finishes: the record is pushed with the size and hash of the file
\* written, the temporary folder is removed, and addFromObject goes on.
StreamFinishes ==
    /\ pc = "stream"
    /\ LET f    == Val(fetching)
           file == ResponseBody(f.url, f.ok)
       IN  /\ downloads' = Append(downloads, URLDownload(f.id, f.url, file))
           /\ tempFolders' = tempFolders \ {f.tempFolder}
           /\ Advance(Compiled(Current, Some(f.id)))
    /\ fetching' = Undefined
    /\ pc' = "resolve"
    /\ UNCHANGED << formatVars, env, firstRun, distBefore, catalog, fi, generated, outDir, fetchLog, manifest >>

\* main, line 220: the font's installations are sorted.
FinishFont ==
    /\ pc = "resolve"
    /\ fi <= Len(fonts)
    /\ ii > Len(fonts[fi].installations)
    /\ fonts' = [fonts EXCEPT ![fi].installations = sortInstallations(@)]
    /\ fi' = fi + 1
    /\ ii' = 1
    /\ UNCHANGED << formatVars, pc, env, firstRun, distBefore, catalog, downloads, generated, outDir, tempFolders,
                    fetching, fetchLog, manifest >>

\* font: the fields kept, the categories and installations sorted.
font(i) ==
    [id            |-> i.id,
     name          |-> i.name,
     shortName     |-> i.shortName,
     publisher     |-> i.publisher,
     categories    |-> sortStrings(i.categories),
     installations |-> sortInstallations(i.installations)]

\* main, line 222: the fonts are sorted by name and mapped through font.
SortFonts ==
    /\ pc = "resolve"
    /\ fi > Len(fonts)
    /\ fonts' = [k \in 1..Len(fonts) |-> font(sortFontsByName(fonts)[k])]
    /\ pc' = "assemble"
    /\ UNCHANGED << formatVars, env, firstRun, distBefore, catalog, fi, ii, downloads, generated, outDir, tempFolders,
                    fetching, fetchLog, manifest >>

\* The record of the output downloads: the internal fields are dropped.
Stripped(download) ==
    [id |-> download.id, downloadURL |-> download.downloadURL,
     fileSize |-> download.fileSize, hash |-> download.hash]

\* AddDownloads with the downloads array itself stripped and sorted, in place.
AddDownloads_InPlace ==
    /\ pc = "assemble"
    /\ downloads' = sortDownloadsById([k \in 1..Len(downloads) |-> Stripped(downloads[k])])
    /\ manifest' = Some([version   |-> version,
                         downloads |-> downloads',
                         fonts     |-> fonts])
    /\ pc' = "write"
    /\ UNCHANGED << formatVars, env, firstRun, distBefore, catalog, fonts, fi, ii, generated, outDir,
                    tempFolders, fetching, fetchLog >>

\* main, lines 225-244: the downloads are stripped and sorted by id, and the
\* manifest object is put together.
AddDownloads ==
    /\ pc = "assemble"
    /\ manifest' = Some([version   |-> version,
                         downloads |-> sortDownloadsById([k \in 1..Len(downloads) |-> Stripped(downloads[k])]),
                         fonts     |-> fonts])
    /\ pc' = "write"
    /\ UNCHANGED << formatVars, env, firstRun, distBefore, catalog, fonts, fi, ii, downloads, generated, outDir,
                    tempFolders, fetching, fetchLog >>

\* WriteManifest with the object as it was before the downloads were added.
WriteManifest_Unassembled ==
    /\ pc = "write"
    /\ outDir' = [outDir EXCEPT !.manifest =
                     Some([version |-> version, downloads |-> <<>>, fonts |-> fonts])]
    /\ pc' = "done"
    /\ UNCHANGED << formatVars, env, firstRun, distBefore, catalog, fonts, fi, ii, downloads, generated, tempFolders,
                    fetching, fetchLog, manifest >>

\* main, line 247: the manifest is written into the output directory.
WriteManifest ==
    /\ pc = "write"
    /\ outDir' = [outDir EXCEPT !.manifest = manifest]
    /\ pc' = "done"
    /\ UNCHANGED << formatVars, env, firstRun, distBefore, catalog, fonts, fi, ii, downloads, generated, tempFolders,
                    fetching, fetchLog, manifest >>

Next ==
    \/ SetupOutDir
    \/ PassThrough
    \/ LocalHit
    \/ LocalMiss
    \/ LocalCopyFails
    \/ URLHit
    \/ URLMiss
    \/ FetchRejects
    \/ FetchResolves
    \/ StreamFails
    \/ StreamFinishes
    \/ FinishFont
    \/ SortFonts
    \/ AddDownloads
    \/ WriteManifest

Spec == Init /\ [][Next]_vars

\* main run a second time, on the same catalog, once a first compile is done:
\* it finds the first one's output directory, it is given the ids and the
\* responses the first one was given, and its environment may be another.
Rerun ==
    /\ pc = "done"
    /\ ~IsDefined(firstRun)
    /\ firstRun' = Some([generated |-> generated, fetchLog |-> fetchLog,
                         env |-> env, output |-> Val(outDir.manifest)])
    /\ pc' = "start"
    /\ fonts' = catalog
    /\ fi' = 1
    /\ ii' = 1
    /\ downloads' = <<>>
    /\ generated' = <<>>
    /\ distBefore' = outDir
    /\ fetchLog' = <<>>
    /\ manifest' = Undefined
    /\ env' \in Environments
    /\ UNCHANGED << formatVars, catalog, outDir, tempFolders, fetching >>

NextTwice == Next \/ Rerun

\* A first compile on a checkout that was never built, with no variable set.
InitTwice ==
    /\ Init
    /\ outDir = NoDir
    /\ env = [VERSION |-> Undefined, URL_PREFIX |-> Undefined]

\* Two compiles of one catalog, one after the other.
SpecTwice == InitTwice /\ [][NextTwice]_vars

(* --------------------------- the format script ------------------------ *)

\* The references of the catalogs as written, each kind in ascending order of
\* its code units: "./a.tar+gz" < "d/../a.tar+gz" and
\* "HTTP://Example.com/f/" < "http://example.com/f".
PathsInOrder ==
    << <<Dot, Seg("a", ".tar+gz")>>, <<Seg("d", ""), DotDot, Seg("a", ".tar+gz")>> >>

UrlsInOrder == << UrlUpper, UrlLower >>

RefRank(r, table) == CHOOSE i \in 1..Len(table) : table[i] = r

\* aSort < bSort on two references of one kind; a comparison with undefined
\* is false.
RefLess(a, b, table) ==
    IsDefined(a) /\ IsDefined(b) /\ RefRank(Val(a), table) < RefRank(Val(b), table)

\* aDownload: 'localpath' when the installation has a _localPath, else 'url'.
DownloadKind(a) == IF IsDefined(a._localPath) THEN "localpath" ELSE "url"

\* sortByTypeThenLocalPathOrURL: by type, remote references first, then by
\* the reference.
sortByTypeThenLocalPathOrURL(a, b) ==
    IF StrLess(a.type, b.type) THEN -1
    ELSE IF StrLess(b.type, a.type) THEN 1
    ELSE IF DownloadKind(a) = "url" /\ DownloadKind(b) = "localpath" THEN -1
    ELSE IF DownloadKind(a) = "localpath" /\ DownloadKind(b) = "url" THEN 1
    ELSE IF DownloadKind(a) = "url"
         THEN IF RefLess(a._url, b._url, UrlsInOrder) THEN -1
              ELSE IF RefLess(b._url, a._url, UrlsInOrder) THEN 1
              ELSE 0
         ELSE IF RefLess(a._localPath, b._localPath, PathsInOrder) THEN -1
              ELSE IF RefLess(b._localPath, a._localPath, PathsInOrder) THEN 1
              ELSE 0

sortSources(a) ==
    Permuted(a, SortOrder(Len(a),
        [i \in 1..Len(a) |-> [j \in 1..Len(a) |->
            sortByTypeThenLocalPathOrURL(a[i], a[j])]]))

\* The format script's font: the fields kept, the categories and the
\* installations sorted.
formatFont(i) ==
    [id            |-> i.id,
     name          |-> i.name,
     shortName     |-> i.shortName,
     publisher     |-> i.publisher,
     categories    |-> sortStrings(i.categories),
     installations |-> sortSources(i.installations)]

\* The id a new font is given in the catalog until the format script runs.
Placeholder == "<UUID>"

\* The ids randomUUID returns to the format script: never one it has returned.
FormatUUIDs == {"uuid-1", "uuid-2"}

formatGenerateUUID ==
    FormatUUIDs \ ({ uuids[k] : k \in 1..Len(uuids) } \cup
                   (IF IsDefined(firstFormat)
                    THEN { Val(firstFormat).uuids[k] : k \in 1..Len(Val(firstFormat).uuids) }
                    ELSE {}))

\* JSON.stringify and JSON.parse: the text of a value made of strings, arrays
\* and objects, in which an undefined property is left out, and the value of
\* such a text.
stringify(v) == [json |-> v]

parse(text) == text.json

\* The fonts of the catalogs the format script is run on: two new fonts with
\* the placeholder id and one font that has its id. The first has any list of
\* installations, the others a list of their own.
ArialFonts ==
    { Font([id |-> Placeholder, name |-> "Arial", shortName |-> "arial",
            publisher |-> "Microsoft", categories |-> <<"serif", "sans-serif">>], ins) :
        ins \in InstallationLists(MaxSources) }

CourierFont ==
    Font([id |-> Placeholder, name |-> "Courier New", shortName |-> "courier",
          publisher |-> "Monotype", categories |-> <<"monospace">>],
         << Installation("zip", Undefined, Undefined, Some(UrlLower), Undefined) >>)

VerdanaFont ==
    Font([id |-> "id-verdana", name |-> "Verdana", shortName |-> "verdana",
          publisher |-> "Microsoft", categories |-> <<"sans-serif", "monospace">>],
         << >>)

Group(n, f) == [name |-> n, fonts |-> f]

FormatGroups == << Group("Web", <<"id-verdana", Placeholder>>), Group("Core", <<"id-verdana">>) >>

\* The arrays that hold each font of S once.
Arrangements(S) ==
    { c \in [1..Cardinality(S) -> S] : \A x, y \in 1..Cardinality(S) : c[x] = c[y] => x = y }

\* The arrays of one to three fonts of different names.
FormatFontLists ==
    UNION { UNION { Arrangements(S) : S \in (SUBSET {a, CourierFont, VerdanaFont}) \ {{}} } :
            a \in ArialFonts }

FormatCatalogs == { [fonts |-> c, groups |-> FormatGroups] : c \in FormatFontLists }

\* The build script is not run.
CompileOff ==
    /\ pc = "off"
    /\ catalog = <<>>
    /\ fonts = <<>>
    /\ fi = 1
    /\ ii = 1
    /\ downloads = <<>>
    /\ generated = <<>>
    /\ outDir = NoDir
    /\ distBefore = NoDir
    /\ tempFolders = {}
    /\ fetching = Undefined
    /\ fetchLog = <<>>
    /\ manifest = Undefined
    /\ firstRun = Undefined
    /\ env = [VERSION |-> Undefined, URL_PREFIX |-> Undefined]

\* The format script's main up to line 54: fonts.json is read and parsed; the
\* list of new ids of an earlier run lies in the repository.
InitFormat ==
    /\ CompileOff
    /\ fpc = "loop"
    /\ \E c \in FormatCatalogs :
         /\ repo = [fonts |-> Some(stringify(c)), newUUIDs |-> Some(stringify(<<"uuid-0">>))]
         /\ formatFonts = parse(stringify(c))
         /\ source = c.fonts
    /\ fk = 1
    /\ uuids = <<>>
    /\ writes = <<>>
    /\ firstFormat = Undefined

\* The body of the loop, lines 59-77, with the placeholder left in place.
Formatted_KeepsPlaceholder(f, id) ==
    [f EXCEPT !.installations =
        [k \in 1..Len(f.installations) |->
            LET src == sortSources(f.installations)[k]
            IN  IF src.type = "cabextract"
                THEN [src EXCEPT !.files = Some(sortStrings(Val(src.files)))]
                ELSE src]]

\* The body of the loop, lines 59-77, on font f: the id is set to id, the
\* installations are sorted, and the files of each cabextract are sorted.
Formatted(f, id) ==
    [f EXCEPT !.id = id,
              !.installations =
        [k \in 1..Len(f.installations) |->
            LET src == sortSources(f.installations)[k]
            IN  IF src.type = "cabextract"
                THEN [src EXCEPT !.files = Some(sortStrings(Val(src.files)))]
                ELSE src]]

\* One turn of the loop on a font whose id is the placeholder.
FormatNewFont ==
    /\ fpc = "loop"
    /\ fk <= Len(formatFonts.fonts)
    /\ formatFonts.fonts[fk].id = Placeholder
    /\ \E id \in formatGenerateUUID :
         /\ formatFonts' = [formatFonts EXCEPT !.fonts[fk] = Formatted(@, id)]
         /\ uuids' = Append(uuids, id)
    /\ fk' = fk + 1
    /\ UNCHANGED << compileVars, fpc, repo, writes, source, firstFormat >>

\* One turn of the loop on a font that has an id.
FormatKnownFont ==
    /\ fpc = "loop"
    /\ fk <= Len(formatFonts.fonts)
    /\ formatFonts.fonts[fk].id # Placeholder
    /\ formatFonts' = [formatFonts EXCEPT !.fonts[fk] = Formatted(@, @.id)]
    /\ fk' = fk + 1
    /\ UNCHANGED << compileVars, fpc, uuids, repo, writes, source, firstFormat >>

\* FormatSortFonts with the fonts array reversed, not sorted.
FormatSortFonts_Reverses ==
    /\ fpc = "loop"
    /\ fk > Len(formatFonts.fonts)
    /\ formatFonts' = [formatFonts EXCEPT !.fonts =
          [k \in 1..Len(@) |-> formatFont(@[Len(@) + 1 - k])]]
    /\ fpc' = "groups"
    /\ UNCHANGED << compileVars, fk, uuids, repo, writes, source, firstFormat >>

\* Line 78: the fonts are sorted by name and mapped through font.
FormatSortFonts ==
    /\ fpc = "loop"
    /\ fk > Len(formatFonts.fonts)
    /\ formatFonts' = [formatFonts EXCEPT !.fonts =
          [k \in 1..Len(@) |-> formatFont(sortFontsByName(@)[k])]]
    /\ fpc' = "groups"
    /\ UNCHANGED << compileVars, fk, uuids, repo, writes, source, firstFormat >>

\* Lines 81-84: the font ids of each group are sorted, and the groups by name.
FormatSortGroups ==
    /\ fpc = "groups"
    /\ formatFonts' = [formatFonts EXCEPT !.groups =
          sortFontsByName([k \in 1..Len(@) |-> [@[k] EXCEPT !.fonts = sortStrings(@)]])]
    /\ fpc' = "write"
    /\ UNCHANGED << compileVars, fk, uuids, repo, writes, source, firstFormat >>

\* Lines 87-90: fonts.json is written.
FormatWriteFonts ==
    /\ fpc = "write"
    /\ repo' = [repo EXCEPT !.fonts = Some(stringify(formatFonts))]
    /\ writes' = Append(writes, "fonts.json")
    /\ fpc' = "uuids"
    /\ UNCHANGED << compileVars, formatFonts, fk, uuids, source, firstFormat >>

\* uuids.length > 1 with the list written as soon as it holds one id.
ListIsWritten_FromOne == Len(uuids) > 0

\* uuids.length > 1, the condition of line 91.
ListIsWritten == Len(uuids) > 1

\* Lines 91-95 when the condition holds: newUUIDs.json is written.
FormatWriteUUIDs ==
    /\ fpc = "uuids"
    /\ ListIsWritten
    /\ repo' = [repo EXCEPT !.newUUIDs = Some(stringify(uuids))]
    /\ writes' = Append(writes, "newUUIDs.json")
    /\ fpc' = "done"
    /\ UNCHANGED << compileVars, formatFonts, fk, uuids, source, firstFormat >>

\* Lines 91-95 when it does not: main returns.
FormatSkipUUIDs ==
    /\ fpc = "uuids"
    /\ ~ListIsWritten
    /\ fpc' = "done"
    /\ UNCHANGED << compileVars, formatFonts, fk, uuids, repo, writes, source, firstFormat >>

\* The format script run again, on the catalog it has written.
FormatAgain ==
    /\ fpc = "done"
    /\ ~IsDefined(firstFormat)
    /\ firstFormat' = Some([source |-> source, uuids |-> uuids,
                            written |-> Val(repo.fonts), writes |-> writes])
    /\ formatFonts' = parse(Val(repo.fonts))
    /\ source' = parse(Val(repo.fonts)).fonts
    /\ fk' = 1
    /\ uuids' = <<>>
    /\ writes' = <<>>
    /\ fpc' = "loop"
    /\ UNCHANGED << compileVars, repo >>

NextFormat ==
    \/ FormatNewFont
    \/ FormatKnownFont
    \/ FormatSortFonts
    \/ FormatSortGroups
    \/ FormatWriteFonts
    \/ FormatWriteUUIDs
    \/ FormatSkipUUIDs
    \/ FormatAgain

\* The format script, run once or twice.
SpecFormat == InitFormat /\ [][NextFormat]_vars

\* Either script is run: the build script on a checkout that was never built,
\* or the format script.
InitScripts == InitTwice \/ InitFormat

NextScripts == Next \/ NextFormat

SpecScripts == InitScripts /\ [][NextScripts]_vars

(* ------------------------- what the claims speak of -------------------- *)

Done == pc = "done"

Failed == pc = "failed"

\* The manifest written into the output directory.
Output == Val(outDir.manifest)

\* The canonical identity key of an installation's reference: the normalized
\* local path, else the normalized URL, else none.
KeyOf(inst) ==
    IF IsDefined(inst._localPath)
    THEN [_type |-> "localFile", _localFile |-> Some(normalize(Val(inst._localPath))), _url |-> Undefined]
    ELSE IF IsDefined(inst._url)
    THEN [_type |-> "url", _localFile |-> Undefined, _url |-> Some(normalizeUrl(Val(inst._url)))]
    ELSE [_type |-> "none", _localFile |-> Undefined, _url |-> Undefined]

HasReference(inst) == KeyOf(inst)._type # "none"

RecordKey(r) == [_type |-> r._type, _localFile |-> r._localFile, _url |-> r._url]

\* The id the download list holds for a key, if any.
IdOfKey(key) ==
    LET hits == { i \in 1..Len(downloads) : RecordKey(downloads[i]) = key }
    IN  IF hits = {} THEN Undefined ELSE Some(downloads[CHOOSE i \in hits : TRUE].id)

Count(seq, v) == Cardinality({ k \in 1..Len(seq) : seq[k] = v })

SameBag(a, b) ==
    /\ Len(a) = Len(b)
    /\ \A k \in 1..Len(a) : Count(a, a[k]) = Count(b, a[k])

\* The font of the output that has the id of font f of the catalog.
OutputFont(f) == CHOOSE g \in 1..Len(Output.fonts) : Output.fonts[g].id = catalog[f].id

OutputIds(id) == { k \in 1..Len(Output.downloads) : Output.downloads[k].id = id }

\* The installations of the catalog, as (font, index) pairs.
CatalogInstallations ==
    { <<f, i>> : f \in 1..Len(catalog), i \in 1..MaxInstalls } \cap
    { p \in (1..Len(catalog)) \X (1..MaxInstalls) : p[2] <= Len(catalog[p[1]].installations) }

(* ------------------------------- claims -------------------------------- *)

\* C1: at every moment the download list holds at most one record per canonical
\* key; after a compile every installation carries the id of the one record of
\* its key (so two installations of equal key carry the same id), and the
\* output downloads hold exactly one record of that id.
C1_Dedup ==
    /\ \A i, j \in 1..Len(downloads) :
         RecordKey(downloads[i]) = RecordKey(downloads[j]) => i = j
    /\ Done =>
         \A f \in 1..Len(catalog) :
           LET src == catalog[f].installations
               out == Output.fonts[OutputFont(f)].installations
               expected == [k \in 1..Len(src) |->
                              [type |-> src[k].type,
                               download |-> IF HasReference(src[k]) THEN IdOfKey(KeyOf(src[k]))
                                            ELSE src[k].download]]
               got == [k \in 1..Len(out) |-> [type |-> out[k].type, download |-> out[k].download]]
           IN  /\ SameBag(expected, got)
               /\ \A k \in 1..Len(src) :
                    HasReference(src[k]) =>
                      /\ IsDefined(expected[k].download)
                      /\ Cardinality(OutputIds(Val(expected[k].download))) = 1

\* Two spellings of one URL and a local file were compiled: the output holds
\* two records, and the two remote installations carry the same id.
C1_Witness ==
    /\ Done
    /\ \E p, q, r \in CatalogInstallations :
         /\ catalog[p[1]].installations[p[2]]._url = Some(UrlUpper)
         /\ catalog[q[1]].installations[q[2]]._url = Some(UrlLower)
         /\ IsDefined(catalog[r[1]].installations[r[2]]._localPath)
    /\ Len(Output.downloads) = 2

\* The installations of a list that carry the id of exactly one record of the
\* output downloads.
Resolved(insts) ==
    { k \in 1..Len(insts) :
        /\ IsDefined(insts[k].download)
        /\ Cardinality(OutputIds(Val(insts[k].download))) = 1 }

LocalRecords == { k \in 1..Len(downloads) : downloads[k]._type = "localFile" }

\* Every staged asset is the copy made for a local download, and every local
\* download has its copy.
AssetsAreLocalDownloads ==
    /\ \A a \in outDir.assets :
         \E k \in LocalRecords :
           /\ downloads[k].id = a.id
           /\ a.data = Val(SourceBytes(Val(downloads[k]._localFile)))
    /\ \A k \in LocalRecords : \E a \in outDir.assets : a.id = downloads[k].id

\* A resolution threw: the local copy failed, the fetch rejected or the
\* response stream emitted an error.
ResolutionThrew ==
    \/ \E k \in 1..Len(fetchLog) : fetchLog[k].result \in {"rejected", "streamError"}
    \/ /\ Len(generated) > Len(downloads)
       /\ pc \notin {"fetch", "stream"}

C4_FetchErrorIsFatal ==
    \A k \in 1..Len(fetchLog) :
      fetchLog[k].result \in {"rejected", "httpError"} =>
        /\ ~Done
        /\ ~IsDefined(downloadExistsURL(fetchLog[k].url))

\* The bytes a request of the log brought, if it brought a response.
Fetched(url) ==
    { ResponseBody(url, fetchLog[k].result = "success") :
        k \in { j \in 1..Len(fetchLog) :
                  fetchLog[j].url = url /\ fetchLog[j].result \in {"success", "httpError"} } }

\* C5: after a compile, the hash and fileSize of every output record are the
\* digest and the length of the bytes of its asset: for a local record the
\* file staged under <id><extension> in the output directory, for a remote
\* record the bytes fetched from its URL.
C5_HashIntegrity ==
    Done =>
      \A k \in 1..Len(Output.downloads) :
        LET r == Output.downloads[k]
        IN  IF IsDefined(r.downloadURL.url)
            THEN \E bytes \in Fetched(Val(r.downloadURL.url)) :
                   r.hash = sha256(bytes) /\ r.fileSize = Len(bytes)
            ELSE \E a \in outDir.assets :
                   /\ a.id = r.id
                   /\ encodeURIComponent([id |-> a.id, ext |-> a.ext]) = Val(r.downloadURL.name)
                   /\ r.hash = sha256(a.data)
                   /\ r.fileSize = Len(a.data)

\* A compile ended with a local and a remote record in its output.
C5_Witness ==
    /\ Done
    /\ \E j, k \in 1..Len(Output.downloads) :
         /\ IsDefined(Output.downloads[j].downloadURL.url)
         /\ IsDefined(Output.downloads[k].downloadURL.prefix)
    /\ fetchLog[1].result = "success"

\* The installations the traversal has reached: those of the fonts before the
\* current one, those before the current one in its font, and the current one
\* once its resolution has begun.
Visited ==
    { p \in CatalogInstallations :
        \/ p[1] < fi
        \/ p[1] = fi /\ p[2] < ii
        \/ p[1] = fi /\ p[2] = ii /\ pc \in {"fetch", "stream", "failed"} }

VisitedKeys(type) ==
    { KeyOf(catalog[p[1]].installations[p[2]]) : p \in Visited } \cap
    { KeyOf(i) : i \in { j \in InstallationPool : KeyOf(j)._type = type } }

\* C6: during a compile each distinct canonical key is resolved once: as many
\* ids were generated as distinct keys were reached, as many requests were
\* sent as distinct remote keys, as many files were copied as distinct local
\* keys, and the download list holds no more records than keys; so an
\* installation of a key that was reached before generates, fetches, copies
\* and inserts nothing.
C6_ResolveOnce ==
    pc \in {"resolve", "fetch", "stream", "failed"} =>
      /\ Len(generated) = Cardinality(VisitedKeys("localFile")) + Cardinality(VisitedKeys("url"))
      /\ Len(fetchLog) = Cardinality(VisitedKeys("url"))
      /\ Cardinality(outDir.assets) <= Cardinality(VisitedKeys("localFile"))
      /\ Len(downloads) <= Len(generated)

\* The traversal has gone past two installations of one key and one id was
\* generated.
C6_Witness ==
    /\ pc = "resolve"
    /\ \E p, q \in Visited :
         /\ p # q
         /\ HasReference(catalog[p[1]].installations[p[2]])
         /\ KeyOf(catalog[p[1]].installations[p[2]]) = KeyOf(catalog[q[1]].installations[q[2]])
    /\ Len(generated) = 1
    /\ Len(downloads) = 1

\* a comes before b in the order of (type, download id).
PairLess(a, b) ==
    \/ StrLess(a.type, b.type)
    \/ a.type = b.type /\ IdLess(a.download, b.download)

\* No element of the sequence is followed, at any distance, by a lesser one.
NonDecreasingStrings(seq) ==
    \A i, j \in 1..Len(seq) : i < j => ~StrLess(seq[j], seq[i])

\* C7, as stated: in the manifest of a successful compile the fonts are in
\* non-decreasing order of name, each font's installations in non-decreasing
\* order of (type, download id), each font's categories and each cabextract
\* installation's files in non-decreasing order, and the downloads in
\* non-decreasing order of id.
C7_CanonicalOrder ==
    Done =>
      /\ NonDecreasingStrings([g \in 1..Len(Output.fonts) |-> Output.fonts[g].name])
      /\ \A g \in 1..Len(Output.fonts) :
           LET out == Output.fonts[g].installations
           IN  /\ \A i, j \in 1..Len(out) : i < j => ~PairLess(out[j], out[i])
               /\ NonDecreasingStrings(Output.fonts[g].categories)
               /\ \A k \in 1..Len(out) :
                    out[k].type = "cabextract" => NonDecreasingStrings(Val(out[k].files))
      /\ \A i, j \in 1..Len(Output.downloads) :
           i < j => Output.downloads[i].id <= Output.downloads[j].id

\* C9, as stated: a temporary folder exists only while its download is in
\* progress: none is left when a download step has ended, completed or failed,
\* and none when the compile has terminated.
C9_TempFoldersRemoved ==
    pc \notin {"fetch", "stream"} => tempFolders = {}

AssetOf(k) ==
    [id   |-> downloads[k].id,
     ext  |-> extname(Val(downloads[k]._localFile)),
     data |-> Val(SourceBytes(Val(downloads[k]._localFile)))]

\* C11: after a successful compile, whatever the output directory held before
\* the run, it holds exactly the manifest file and, for each local download of
\* this run, one file named <id><extension> that is a byte-for-byte copy of
\* the download's source file; nothing of an earlier build is left.
C11_OutDirReplaced ==
    Done =>
      /\ outDir.exists
      /\ outDir.stale = {}
      /\ IsDefined(outDir.manifest)
      /\ outDir.assets = { AssetOf(k) : k \in LocalRecords }
      /\ Cardinality(outDir.assets) = Cardinality(LocalRecords)

\* A compile that found the files of an earlier build in the output directory
\* ended after it had staged a local asset.
C11_Witness ==
    /\ Done
    /\ distBefore = OldDir
    /\ LocalRecords # {}

\* The format script has returned.
FormatDone == fpc = "done"

\* The catalog the format script has written.
Written == parse(Val(repo.fonts))

\* The fonts of an array that have the id and the name, short name and
\* publisher of font f.
SameFont(array, f) ==
    { g \in 1..Len(array) :
        /\ array[g].id = f.id
        /\ array[g].name = f.name
        /\ array[g].shortName = f.shortName
        /\ array[g].publisher = f.publisher }

\* The fonts of an array that have the name, short name and publisher of font
\* f and one of the ids.
SameFontRenamed(array, f, ids) ==
    { g \in 1..Len(array) :
        /\ array[g].id \in ids
        /\ array[g].name = f.name
        /\ array[g].shortName = f.shortName
        /\ array[g].publisher = f.publisher }

\* The fonts of the catalog read that have the placeholder id.
NewFonts == { f \in 1..Len(source) : source[f].id = Placeholder }

\* C12: when the format script has returned, the catalog it wrote has as many
\* fonts as the one it read, none with the placeholder id; a font read with
\* the placeholder id has one of the ids generated in this run, each id given
\* to one font, and every other font has the id it had, each with the name,
\* short name and publisher it was read with. When the build script has
\* returned, the manifest has as many fonts as the catalog and every font of
\* the catalog is in it with its id, name, short name and publisher.
C12_FontIdsKept ==
    /\ FormatDone =>
          /\ Len(Written.fonts) = Len(source)
          /\ \A g \in 1..Len(Written.fonts) : Written.fonts[g].id # Placeholder
          /\ Len(uuids) = Cardinality(NewFonts)
          /\ \A x, y \in 1..Len(uuids) : uuids[x] = uuids[y] => x = y
          /\ \A f \in 1..Len(source) :
                IF f \in NewFonts
                THEN /\ Cardinality(SameFontRenamed(Written.fonts, source[f],
                                                    { uuids[k] : k \in 1..Len(uuids) })) = 1
                     /\ \A k \in 1..Len(uuids) : \A h \in 1..Len(source) :
                           uuids[k] # source[h].id
                ELSE Cardinality(SameFont(Written.fonts, source[f])) = 1
    /\ Done =>
          /\ Len(Output.fonts) = Len(catalog)
          /\ \A f \in 1..Len(catalog) :
                Cardinality(SameFont(Output.fonts, catalog[f])) = 1

\* A first format pass has returned on a catalog of two new fonts and one
\* that had its id, which it wrote in another order than it read them.
C12_Witness ==
    /\ FormatDone
    /\ ~IsDefined(firstFormat)
    /\ Cardinality(NewFonts) = 2
    /\ Len(source) = 3
    /\ source[1].name = "Verdana"
    /\ Written.fonts[3].id = "id-verdana"

\* The requests for the URL a remote download's key was made from.
RequestsOf(r) ==
    { q \in 1..Len(fetchLog) : Some(normalizeUrl(fetchLog[q].url)) = r._url }

\* The URLs written in the catalog.
CatalogUrls ==
    { Val(catalog[p[1]].installations[p[2]]._url) :
        p \in { q \in CatalogInstallations :
                  IsDefined(catalog[q[1]].installations[q[2]]._url) } }

\* downloadURL as the claim builds it, for a record r.
DownloadURLBuilt(r) ==
    IF r._type = "localFile"
    THEN /\ r.downloadURL.prefix = Some(urlPrefix)
         /\ r.downloadURL.url = Undefined
         /\ \E a \in outDir.assets :
               /\ a.id = r.id
               /\ a.ext = extname(Val(r._localFile))
               /\ r.downloadURL.name = Some(encodeURIComponent([id |-> a.id, ext |-> a.ext]))
    ELSE /\ r.downloadURL.prefix = Undefined
         /\ r.downloadURL.name = Undefined
         /\ Cardinality(RequestsOf(r)) = 1
         /\ \A q \in RequestsOf(r) :
               /\ r.downloadURL.url = Some(fetchLog[q].url)
               /\ fetchLog[q].url \in CatalogUrls

\* C13: the downloadURL of every record made from a local file is the
\* configured prefix followed by the URL-encoding of <id><extension>, the name
\* of the asset staged for it; the downloadURL of every record made from a
\* remote reference is the URL as the catalog writes it, the one that was
\* requested, not its normalized form. The same holds of the written manifest.
C13_DownloadURL ==
    /\ \A k \in 1..Len(downloads) : DownloadURLBuilt(downloads[k])
    /\ Done =>
          /\ Len(Output.downloads) = Len(downloads)
          /\ \A k \in 1..Len(downloads) :
                \E o \in 1..Len(Output.downloads) :
                  /\ Output.downloads[o].id = downloads[k].id
                  /\ Output.downloads[o].downloadURL = downloads[k].downloadURL

\* A compile with a configured prefix ended with a local download, whose asset
\* name is changed by the encoding, and a remote one, whose URL is changed by
\* the normalization.
C13_Witness ==
    /\ Done
    /\ IsDefined(env.URL_PREFIX)
    /\ \E k \in 1..Len(downloads) :
          /\ downloads[k]._type = "localFile"
          /\ Val(downloads[k].downloadURL.name).ext # extname(Val(downloads[k]._localFile))
    /\ \E k \in 1..Len(downloads) :
          /\ downloads[k]._type = "url"
          /\ downloads[k].downloadURL.url # downloads[k]._url

\* A remote resolution is in progress: its request was sent and it has neither
\* inserted its record nor thrown.
InProgress == IsDefined(fetching) /\ pc # "failed"

\* The traversal goes to the next installation of the font, or from the end of
\* a font to the first installation of the next.
NextInSourceOrder ==
    \/ /\ fi' = fi
       /\ ii' = ii + 1
       /\ ii <= Len(fonts[fi].installations)
    \/ /\ fi' = fi + 1
       /\ ii' = 1
       /\ ii = Len(fonts[fi].installations) + 1

\* The step that ends the resolution in progress: its record, of the key of
\* the URL it requested and of the id generated for it, is inserted at the
\* end of the download list and the traversal goes on.
InsertsItsRecord ==
    /\ ~InProgress'
    /\ Len(downloads') = Len(downloads) + 1
    /\ SubSeq(downloads', 1, Len(downloads)) = downloads
    /\ downloads'[Len(downloads')]._url = Some(normalizeUrl(Val(fetching).url))
    /\ downloads'[Len(downloads')].id = Val(fetching).id
    /\ Val(fetching).url = Val(catalog[fi].installations[ii]._url)
    /\ fi' = fi
    /\ ii' = ii + 1

\* C14: installations are resolved one at a time and in source order. Every
\* step leaves the traversal where it is or moves it to the next installation
\* in source order; while a remote resolution is in progress, from the sending
\* of its request to the insertion of its record, the traversal stays at its
\* installation, no other lookup hit is applied, no other id is generated, no
\* other request is sent and no other record is inserted: the only change to
\* the download list is the insertion that ends it, or it ends by throwing.
C14_SerialResolution ==
    [][ /\ pc \in {"resolve", "fetch", "stream"} =>
              (fi' = fi /\ ii' = ii) \/ NextInSourceOrder
        /\ InProgress =>
              /\ pc \in {"fetch", "stream"}
              /\ generated' = generated
              /\ Len(fetchLog') = Len(fetchLog)
              /\ \/ /\ InProgress'
                    /\ Val(fetching').url = Val(fetching).url
                    /\ downloads' = downloads
                    /\ fonts' = fonts
                    /\ fi' = fi
                    /\ ii' = ii
                 \/ InsertsItsRecord
                 \/ /\ pc' = "failed"
                    /\ downloads' = downloads
                    /\ fi' = fi
                    /\ ii' = ii ]_vars

\* A remote resolution is in progress, after another record was inserted,
\* while a later installation of the catalog refers to the same key.
C14_Witness ==
    /\ InProgress
    /\ pc = "stream"
    /\ Len(downloads) = 1
    /\ \E p \in CatalogInstallations \ Visited :
          KeyOf(catalog[p[1]].installations[p[2]]) = KeyOf(catalog[fi].installations[ii])

\* C15: the download list only grows and its records never change: every step
\* of a compile leaves each record in its place with its id, downloadURL,
\* fileSize, hash and canonical key, and adds at most one record at the end;
\* so the resolution of a later installation, hit or miss, and the assembly
\* and writing of the manifest change and remove no stored record.
C15_RecordsImmutable ==
    [][ /\ Len(downloads') \in {Len(downloads), Len(downloads) + 1}
        /\ \A k \in 1..Len(downloads) : downloads'[k] = downloads[k] ]_vars

\* A compile ended with two records, the first with the greater id, and an
\* installation that was a hit.
C15_Witness ==
    /\ Done
    /\ Len(downloads) = 2
    /\ downloads[1].id > downloads[2].id
    /\ Cardinality(CatalogInstallations) = 3
    /\ \A p \in CatalogInstallations : HasReference(catalog[p[1]].installations[p[2]])

\* An installation with its files, if it is a cabextract, sorted and nothing
\* else changed.
WithFilesSorted(inst) ==
    IF inst.type = "cabextract"
    THEN [inst EXCEPT !.files = Some(sortStrings(Val(@)))]
    ELSE inst

\* C16: the step of the traversal on an installation that carries neither
\* _localPath nor _url generates no id, sends no request, makes no temporary
\* folder, writes nothing into the output directory and leaves the download
\* list as it is; the installation is the one the catalog wrote, with the
\* download field it had, and after the step it differs at most by the order
\* of its files; no other installation is changed.
C16_PassThrough ==
    [][ (InTraversal /\ ~HasReference(Current)) =>
          /\ Current = catalog[fi].installations[ii]
          /\ downloads' = downloads
          /\ generated' = generated
          /\ fetchLog' = fetchLog
          /\ fetching' = fetching
          /\ tempFolders' = tempFolders
          /\ outDir' = outDir
          /\ fonts' = [fonts EXCEPT ![fi].installations[ii] = WithFilesSorted(Current)]
          /\ fonts'[fi].installations[ii].download = catalog[fi].installations[ii].download
          /\ fi' = fi
          /\ ii' = ii + 1 ]_vars

\* The traversal has gone past an installation with no reference that came
\* after a resolved one, whose record is in the download list.
C16_Witness ==
    /\ pc = "resolve"
    /\ Len(downloads) = 1
    /\ \E p \in Visited :
          /\ ~HasReference(catalog[p[1]].installations[p[2]])
          /\ p[2] > 1
          /\ HasReference(catalog[p[1]].installations[1])
          /\ ~IsDefined(fonts[p[1]].installations[p[2]].download)

\* The distinct canonical keys the installations of the catalog refer to.
CatalogKeys ==
    { KeyOf(catalog[p[1]].installations[p[2]]) :
        p \in { q \in CatalogInstallations :
                  HasReference(catalog[q[1]].installations[q[2]]) } }

\* The installations of the written fonts that carry the download id.
Carriers(id) ==
    { q \in (1..Len(Output.fonts)) \X (1..MaxInstalls) :
        /\ q[2] <= Len(Output.fonts[q[1]].installations)
        /\ Output.fonts[q[1]].installations[q[2]].download = Some(id) }

\* C17: in the manifest of a successful compile every download record is the
\* record made for the key of some installation of the catalog, its id is the
\* download of at least one installation of the written fonts, and there are
\* as many records as distinct canonical keys among the catalog's references.
C17_NoOrphanDownloads ==
    Done =>
      /\ \A o \in 1..Len(Output.downloads) :
            /\ \E key \in CatalogKeys : IdOfKey(key) = Some(Output.downloads[o].id)
            /\ Carriers(Output.downloads[o].id) # {}
      /\ Len(Output.downloads) = Cardinality(CatalogKeys)

\* A compile ended on a catalog of two fonts whose three installations refer
\* to two keys, one of them from both fonts.
C17_Witness ==
    /\ Done
    /\ Len(catalog) = 2
    /\ Cardinality(CatalogInstallations) = 3
    /\ Cardinality(CatalogKeys) = 2
    /\ Len(Output.downloads) = 2
    /\ \E o \in 1..2 :
          \E q, r \in Carriers(Output.downloads[o].id) : q[1] # r[1]

\* C18: a format pass run on the catalog written by a format pass generates
\* no id and writes the catalog it read: the same fonts in the same order, each
\* with the same installations, files and categories in the same order, and
\* the same groups with the same font ids in the same order; it writes
\* fonts.json and nothing else.
C18_FormatIdempotent ==
    (FormatDone /\ IsDefined(firstFormat)) =>
      /\ uuids = <<>>
      /\ \A f \in 1..Len(source) : source[f].id # Placeholder
      /\ Val(repo.fonts) = Val(firstFormat).written
      /\ Written.fonts = source
      /\ writes = <<"fonts.json">>

\* A second format pass has returned, after a first one that generated two
\* ids and reordered the fonts and the three installations of a font, one of
\* them with no reference.
C18_Witness ==
    /\ FormatDone
    /\ IsDefined(firstFormat)
    /\ Len(Val(firstFormat).uuids) = 2
    /\ Val(firstFormat).source # source
    /\ \E f \in 1..Len(source) :
          /\ Len(source[f].installations) = 3
          /\ \E k \in 1..3 : ~HasReference(source[f].installations[k])
          /\ \E g \in 1..Len(source) :
                /\ Val(firstFormat).source[g].name = source[f].name
                /\ Val(firstFormat).source[g].installations # source[f].installations

\* The names of the files the format pass has written.
FilesWritten == { writes[k] : k \in 1..Len(writes) }

\* C19: when the format pass has returned it has written fonts.json, first and
\* once, and it has written newUUIDs.json, with the ids generated in this run
\* in order of generation, exactly when it replaced two or more placeholder
\* ids; when it replaced one or none it has written no list, and the list of
\* an earlier run is still in the repository.
C19_NewUUIDsList ==
    FormatDone =>
      /\ Len(uuids) = Cardinality(NewFonts)
      /\ writes[1] = "fonts.json"
      /\ "newUUIDs.json" \in FilesWritten <=> Len(uuids) >= 2
      /\ IF Len(uuids) >= 2
         THEN /\ writes = <<"fonts.json", "newUUIDs.json">>
              /\ repo.newUUIDs = Some(stringify(uuids))
         ELSE /\ writes = <<"fonts.json">>
              /\ ~IsDefined(firstFormat) => repo.newUUIDs = Some(stringify(<<"uuid-0">>))

\* A first format pass has returned that replaced exactly one placeholder id,
\* of a catalog of two fonts.
C19_Witness ==
    /\ FormatDone
    /\ ~IsDefined(firstFormat)
    /\ Len(uuids) = 1
    /\ Len(source) = 2
    /\ Written.fonts # source

====
